---- MODULE Spec2Model ----
(***************************************************************************)
(* Model of the ahrefs-cli request execution core: client.Client (NewClient,*)
(* Do, doRequest, parseError), the error part of output.Writer (NewWriter,  *)
(* WriteError, formatError) and the request-failure path of a leaf command  *)
(* (siteexplorer.runDomainRating).                                          *)
(*                                                                          *)
(* Strings are TLA+ strings; fmt verbs are modelled by concatenation and    *)
(* ToString.  Time is counted in whole seconds.                             *)
(***************************************************************************)
EXTENDS Integers, Sequences, FiniteSets, TLC

(***************************************************************************)
(* Bounds of the model                                                      *)
(***************************************************************************)
\* Config.MaxRetries is drawn from -NegRetries .. MaxCfgRetries
MaxCfgRetries == 2
NegRetries == 2
\* the row-sets given to the Writer have at most MaxRows elements
MaxRows == 2

(***************************************************************************)
(* Program constants                                                        *)
(***************************************************************************)
DefaultMaxRetries == 3
\* time.Second, in the model's unit of time
Second == 1
BaseURL == "https://api.ahrefs.com/v3"

StatusBadRequest == 400
StatusUnauthorized == 401
StatusForbidden == 403
StatusNotFound == 404
StatusTooManyRequests == 429

(***************************************************************************)
(* The environment: what a server (or the network) can answer               *)
(***************************************************************************)
\* status 0 stands for "no response": httpClient.Do returned an error
NoResponse == 0

\* the status codes the modelled server answers with
StatusCodes == {200, 304, 400, 401, 403, 404, 418, 429, 499, 500, 503, 599}

\* net/http.StatusText on the modelled codes; "" for a code it does not know
StatusText(code) ==
    CASE code = 200 -> "OK"
      [] code = 304 -> "Not Modified"
      [] code = 400 -> "Bad Request"
      [] code = 401 -> "Unauthorized"
      [] code = 403 -> "Forbidden"
      [] code = 404 -> "Not Found"
      [] code = 418 -> "I'm a teapot"
      [] code = 429 -> "Too Many Requests"
      [] code = 500 -> "Internal Server Error"
      [] code = 503 -> "Service Unavailable"
      [] OTHER -> ""

BodyEmpty == ""
BodyText == "test error"
BodyMsg == "{\"error\":{\"message\":\"Invalid API key\"}}"
BodyCodeMsg == "{\"error\":{\"code\":\"E42\",\"message\":\"quota exceeded\"}}"
BodyCodeNoMsg == "{\"error\":{\"code\":\"E42\",\"message\":\"\"}}"
BodyBadShape == "{\"error\":\"oops\"}"
BodyRating == "{\"domain_rating\":{\"domain_rating\":91}}"

\* the response bodies the modelled server answers with
Bodies == {BodyEmpty, BodyText, BodyMsg, BodyCodeMsg, BodyCodeNoMsg, BodyBadShape,
           BodyRating}

\* json.Unmarshal(body, &errResp) into struct{Error struct{Code, Message}}:
\* ok is (err == nil); Code and Message are the fields after the call
Unmarshal(body) ==
    CASE body = BodyMsg -> [ok |-> TRUE, Code |-> "", Message |-> "Invalid API key"]
      [] body = BodyCodeMsg -> [ok |-> TRUE, Code |-> "E42", Message |-> "quota exceeded"]
      [] body = BodyCodeNoMsg -> [ok |-> TRUE, Code |-> "E42", Message |-> ""]
      [] body = BodyRating -> [ok |-> TRUE, Code |-> "", Message |-> ""]
      [] OTHER -> [ok |-> FALSE, Code |-> "", Message |-> ""]

(***************************************************************************)
(* Go error values                                                          *)
(***************************************************************************)
NilErr == [kind |-> "nil"]

\* fmt.Errorf without %w, errors.New, context errors
Errorf(text) == [kind |-> "errorString", text |-> text]

\* (*APIError).Error, and Error() of the other error values
ErrorText(e) ==
    CASE e.kind = "nil" -> "%!w(<nil>)"
      [] e.kind = "APIError" ->
            "API error (" \o ToString(e.StatusCode) \o "): " \o e.Message
      [] OTHER -> e.text

\* fmt.Errorf(prefix + "%w", e)
Wrapf(prefix, e) ==
    [kind |-> "wrapError", text |-> prefix \o ErrorText(e), unwrap |-> e]

ErrCanceled == Errorf("context canceled")
ErrDeadlineExceeded == Errorf("context deadline exceeded")
ErrConnRefused == Errorf("connection refused")

(***************************************************************************)
(* client.Client                                                            *)
(***************************************************************************)
NewClient(cfg) ==
    [baseURL |-> IF cfg.BaseURL = "" THEN BaseURL ELSE cfg.BaseURL,
     apiKey |-> cfg.APIKey,
     maxRetries |-> IF cfg.MaxRetries = 0 THEN DefaultMaxRetries ELSE cfg.MaxRetries]

\* variant: without a JSON message the status text is used, whatever the body
parseErrorMessage_StatusText(statusCode, body) ==
    LET errResp == Unmarshal(body)
    IN  IF errResp.ok /\ errResp.Message # ""
        THEN errResp.Message
        ELSE StatusText(statusCode)

parseErrorMessage(statusCode, body) ==
    LET errResp == Unmarshal(body)
    IN  IF errResp.ok /\ errResp.Message # ""
        THEN errResp.Message
        ELSE IF body = "" THEN StatusText(statusCode) ELSE body

\* variant: the table's code is used only when the body carried no code
parseErrorCode_KeepParsed(statusCode, body) ==
    LET errResp == Unmarshal(body)
        parsed == IF errResp.ok /\ errResp.Message # "" THEN errResp.Code ELSE ""
    IN  IF parsed # ""
        THEN parsed
        ELSE CASE statusCode \in {StatusUnauthorized, StatusForbidden} -> "AUTH_ERROR"
               [] statusCode = StatusTooManyRequests -> "RATE_LIMIT_ERROR"
               [] statusCode = StatusBadRequest -> "VALIDATION_ERROR"
               [] statusCode = StatusNotFound -> "NOT_FOUND"
               [] OTHER -> ""

parseErrorCode(statusCode, body) ==
    LET errResp == Unmarshal(body)
        parsed == IF errResp.ok /\ errResp.Message # "" THEN errResp.Code ELSE ""
    IN  CASE statusCode \in {StatusUnauthorized, StatusForbidden} -> "AUTH_ERROR"
          [] statusCode = StatusTooManyRequests -> "RATE_LIMIT_ERROR"
          [] statusCode = StatusBadRequest -> "VALIDATION_ERROR"
          [] statusCode = StatusNotFound -> "NOT_FOUND"
          [] OTHER -> parsed

\* variant: the switch has a default case that suggests retrying
parseErrorSuggestion_Default(statusCode) ==
    CASE statusCode \in {StatusUnauthorized, StatusForbidden} ->
            "Check your API key. Run 'ahrefs config set-key <your-key>' to configure"
      [] statusCode = StatusTooManyRequests ->
            "Rate limit exceeded. Wait before retrying or check your subscription limits"
      [] statusCode = StatusBadRequest ->
            "Check request parameters. Use --describe flag to see valid options"
      [] statusCode = StatusNotFound ->
            "Endpoint or resource not found. Verify the target and endpoint"
      [] OTHER -> "Retry the request later"

parseErrorSuggestion(statusCode) ==
    CASE statusCode \in {StatusUnauthorized, StatusForbidden} ->
            "Check your API key. Run 'ahrefs config set-key <your-key>' to configure"
      [] statusCode = StatusTooManyRequests ->
            "Rate limit exceeded. Wait before retrying or check your subscription limits"
      [] statusCode = StatusBadRequest ->
            "Check request parameters. Use --describe flag to see valid options"
      [] statusCode = StatusNotFound ->
            "Endpoint or resource not found. Verify the target and endpoint"
      [] OTHER -> ""

parseErrorDocsURL(statusCode) ==
    CASE statusCode \in {StatusUnauthorized, StatusForbidden} ->
            "https://docs.ahrefs.com/docs/api/reference/api-keys-creation-and-management"
      [] statusCode = StatusTooManyRequests ->
            "https://docs.ahrefs.com/docs/api/reference/limits-consumption"
      [] OTHER -> ""

parseError(statusCode, body) ==
    [kind |-> "APIError",
     StatusCode |-> statusCode,
     Code |-> parseErrorCode(statusCode, body),
     Message |-> parseErrorMessage(statusCode, body),
     Suggestion |-> parseErrorSuggestion(statusCode),
     DocsURL |-> parseErrorDocsURL(statusCode)]

NilResp == [isNil |-> TRUE]

NilMeta == [isNil |-> TRUE]

\* a ResponseMeta
Meta(units, remaining, ms) ==
    [isNil |-> FALSE, UnitsConsumed |-> units, RateLimitRemaining |-> remaining,
     ResponseTimeMS |-> ms]

Response(statusCode, body, meta) ==
    [isNil |-> FALSE, StatusCode |-> statusCode, Body |-> body, Meta |-> meta]

\* fmt.Sscanf(units, "%d", &unitsInt) on the modelled header values
Sscanf(units) ==
    CASE units = "5" -> [ok |-> TRUE, n |-> 5]
      [] units = "5abc" -> [ok |-> TRUE, n |-> 5]
      [] OTHER -> [ok |-> FALSE, n |-> 0]

\* ResponseMeta.UnitsConsumed after doRequest read the X-API-Units-Consumed header
UnitsConsumed(units) == IF units # "" /\ Sscanf(units).ok THEN Sscanf(units).n ELSE 0

\* variant: an error status is not turned into an error
doRequest_NoStatusCheck(status, body, netErr, units, ms) ==
    IF status = NoResponse
    THEN [resp |-> NilResp, err |-> Wrapf("HTTP request failed: ", netErr)]
    ELSE [resp |-> Response(status, body, Meta(UnitsConsumed(units), 0, ms)),
          err |-> NilErr]

\* doRequest on an attempt that the network answers with (status, body), the
\* header X-API-Units-Consumed = units, after ms milliseconds;
\* status NoResponse is a failure of httpClient.Do with error netErr
doRequest(status, body, netErr, units, ms) ==
    LET r == Response(status, body, Meta(UnitsConsumed(units), 0, ms))
    IN  IF status = NoResponse
        THEN [resp |-> NilResp, err |-> Wrapf("HTTP request failed: ", netErr)]
        ELSE IF status >= 400
             THEN [resp |-> r, err |-> parseError(status, body)]
             ELSE [resp |-> r, err |-> NilErr]

\* variant: the lower bound of the client-error range is exclusive
IsClientError_ExclusiveBound(resp) ==
    /\ ~resp.isNil
    /\ resp.StatusCode > 400
    /\ resp.StatusCode < 500
    /\ resp.StatusCode # StatusTooManyRequests

\* the condition of the break in Do's loop
IsClientError(resp) ==
    /\ ~resp.isNil
    /\ resp.StatusCode >= 400
    /\ resp.StatusCode < 500
    /\ resp.StatusCode # StatusTooManyRequests

\* variant: the number in the text is the number of attempts allowed
RetriesError_Attempts(maxRetries, lastErr) ==
    Wrapf("request failed after " \o ToString(maxRetries + 1) \o " retries: ", lastErr)

\* the error Do returns after its loop
RetriesError(maxRetries, lastErr) ==
    Wrapf("request failed after " \o ToString(maxRetries) \o " retries: ", lastErr)

(***************************************************************************)
(* output.Writer, error side                                                *)
(***************************************************************************)
\* the map formatError builds; an absent key is an absent record field
formatError(e) ==
    IF e.kind = "APIError"
    THEN [code |-> e.Code, message |-> e.Message]
         @@ (IF e.Suggestion # "" THEN [suggestion |-> e.Suggestion] ELSE <<>>)
         @@ (IF e.DocsURL # "" THEN [docs_url |-> e.DocsURL] ELSE <<>>)
    ELSE [message |-> ErrorText(e)]

\* the value WriteError encodes
ErrorEnvelope(e) == [status |-> "error", error |-> formatError(e)]

\* variant: the format is looked at, as in WriteSuccess
WriteError_ByFormat(format, e) ==
    IF format = "json"
    THEN [writes |-> <<ErrorEnvelope(e)>>, err |-> NilErr, panic |-> FALSE]
    ELSE [writes |-> <<>>, err |-> Errorf("unsupported output format: " \o format),
          panic |-> FALSE]

\* WriteError on a Writer of the given format: the items written to the sink
\* and the error returned
WriteError(format, e) ==
    [writes |-> <<ErrorEnvelope(e)>>, err |-> NilErr, panic |-> FALSE]

(***************************************************************************)
(* Go values handed to the Writer as interface{}                            *)
(***************************************************************************)
\* a value of a basic kind; text is its fmt "%v" form
Scalar(kind, text) == [kind |-> kind, text |-> text]

\* a nil interface (reflect.ValueOf gives the invalid Value)
NilValue == [kind |-> "nil"]

\* a []T whose element type T is a struct, map or basic type
Slice(elems) == [kind |-> "slice", ifaceElem |-> FALSE, elems |-> elems]

\* a []interface{}
SliceOfInterface(elems) == [kind |-> "slice", ifaceElem |-> TRUE, elems |-> elems]

\* a map; entries are in the order reflect's MapKeys returns them in this run
\* a map[string]T whose value type T is a struct, slice or basic type; the
\* order of the entries is the order MapKeys returns the keys in
Map(entries) == [kind |-> "map", ifaceElem |-> FALSE, entries |-> entries]

\* a map[string]interface{}
MapOfInterface(entries) == [kind |-> "map", ifaceElem |-> TRUE, entries |-> entries]

\* the reflect.Value of an element whose static type is interface{}: its Kind
\* is Interface whatever it holds
Interface(v) == [kind |-> "interface", value |-> v]
Entry(key, value) == [key |-> key, value |-> value]

\* a struct; fields are in declaration order, tag is field.Tag.Get("json")
Struct(fields) == [kind |-> "struct", fields |-> fields]
Field(name, tag, value) == [name |-> name, tag |-> tag, value |-> value]

\* the field names of the modelled struct types that start with a lower-case
\* letter
UnexportedNames == {"name", "hidden"}

\* reflect.StructField.IsExported
IsExported(name) == name \notin UnexportedNames

\* strings.Split(jsonTag, ",")[0] on the tags of the modelled struct types
TagName(tag) ==
    CASE tag = "domain_rating,omitempty" -> "domain_rating"
      [] tag = ",omitempty" -> ""
      [] OTHER -> tag

\* Kind() == reflect.Slice || Kind() == reflect.Array
IsSlice(v) == v.kind = "slice"

\* reflect.Value.Index(i - 1): the Value has the slice's element type
Index(val, i) == IF val.ifaceElem THEN Interface(val.elems[i]) ELSE val.elems[i]

\* reflect.Value.MapIndex of the i-th key: the Value has the map's value type
MapIndex(val, i) ==
    IF val.ifaceElem THEN Interface(val.entries[i].value) ELSE val.entries[i].value

RECURSIVE Join(_, _)
\* strings.Join
Join(parts, sep) ==
    IF parts = <<>> THEN ""
    ELSE IF Len(parts) = 1 THEN parts[1]
         ELSE parts[1] \o sep \o Join(Tail(parts), sep)

RECURSIVE Repeat(_, _)
\* strings.Repeat
Repeat(str, n) == IF n <= 0 THEN "" ELSE str \o Repeat(str, n - 1)

\* the position fmt gives a map key when it prints a map (keys sorted)
KeyRank(key) ==
    CASE key = "domain" -> 1
      [] key = "extra" -> 2
      [] key = "more" -> 3
      [] key = "rows" -> 4
      [] OTHER -> 5

RECURSIVE SortEntries(_)
SortEntries(entries) ==
    IF entries = <<>> THEN <<>>
    ELSE LET i == CHOOSE i \in 1..Len(entries) :
                    \A j \in 1..Len(entries) :
                        KeyRank(entries[i].key) <= KeyRank(entries[j].key)
         IN  <<entries[i]>> \o
             SortEntries([k \in 1..(Len(entries) - 1) |->
                            IF k < i THEN entries[k] ELSE entries[k + 1]])

RECURSIVE Sprint(_)
\* fmt.Sprintf("%v", v)
Sprint(v) ==
    CASE v.kind = "nil" -> "<nil>"
      [] v.kind = "slice" ->
            "[" \o Join([i \in 1..Len(v.elems) |-> Sprint(v.elems[i])], " ") \o "]"
      [] v.kind = "struct" ->
            "{" \o Join([i \in 1..Len(v.fields) |-> Sprint(v.fields[i].value)], " ") \o "}"
      [] v.kind = "map" ->
            LET es == SortEntries(v.entries)
            IN  "map[" \o Join([i \in 1..Len(es) |->
                                  es[i].key \o ":" \o Sprint(es[i].value)], " ") \o "]"
      [] OTHER -> v.text

(***************************************************************************)
(* output.Writer, success side                                              *)
(***************************************************************************)
\* what a write method did: the items it wrote to the sink, the error it
\* returned, and whether it panicked instead of returning
Result(writes, e) == [writes |-> writes, err |-> e, panic |-> FALSE]

\* a panic; the deferred Flush still writes what was buffered before it
Panicked(writes) == [writes |-> writes, err |-> NilErr, panic |-> TRUE]

\* variant: the counters are included when they are zero
JSONMeta_NonNegative(meta) ==
    [response_time_ms |-> meta.ResponseTimeMS]
    @@ (IF meta.UnitsConsumed >= 0
        THEN [units_consumed |-> meta.UnitsConsumed] ELSE <<>>)
    @@ (IF meta.RateLimitRemaining >= 0
        THEN [rate_limit_remaining |-> meta.RateLimitRemaining] ELSE <<>>)

\* the "meta" object writeJSON builds
JSONMeta(meta) ==
    [response_time_ms |-> meta.ResponseTimeMS]
    @@ (IF meta.UnitsConsumed > 0
        THEN [units_consumed |-> meta.UnitsConsumed] ELSE <<>>)
    @@ (IF meta.RateLimitRemaining > 0
        THEN [rate_limit_remaining |-> meta.RateLimitRemaining] ELSE <<>>)

\* writeJSON: one encoded value, the envelope
writeJSON(data, meta) ==
    Result(<<[status |-> "success", data |-> data]
             @@ (IF ~meta.isNil THEN [meta |-> JSONMeta(meta)] ELSE <<>>)>>,
           NilErr)

\* variant: every line is printed without indentation
YAMLLine_Flat(indent, text) == [indent |-> 0, text |-> text]

\* a line of the YAML-like output: strings.Repeat("  ", indent) and the text
YAMLLine(indent, text) == [indent |-> indent, text |-> text]

RECURSIVE FlattenLines(_)
FlattenLines(seqs) ==
    IF seqs = <<>> THEN <<>> ELSE Head(seqs) \o FlattenLines(Tail(seqs))

RECURSIVE writeYAMLValue(_, _)
\* the lines writeYAMLValue prints
writeYAMLValue(v, indent) ==
    CASE v.kind = "nil" -> <<YAMLLine(indent, "nil")>>
      [] v.kind = "map" ->
            FlattenLines([i \in 1..Len(v.entries) |->
                <<YAMLLine(indent, v.entries[i].key \o ":")>>
                \o writeYAMLValue(v.entries[i].value, indent + 1)])
      [] v.kind = "slice" ->
            FlattenLines([i \in 1..Len(v.elems) |->
                <<YAMLLine(indent, "-")>> \o writeYAMLValue(v.elems[i], indent + 1)])
      [] v.kind = "struct" ->
            FlattenLines([i \in 1..Len(v.fields) |->
                IF IsExported(v.fields[i].name)
                THEN <<YAMLLine(indent, v.fields[i].name \o ":")>>
                     \o writeYAMLValue(v.fields[i].value, indent + 1)
                ELSE <<>>])
      [] OTHER -> <<YAMLLine(indent, Sprint(v))>>

writeYAML(data, meta) ==
    Result(<<YAMLLine(0, "status: success"), YAMLLine(0, "data:")>>
           \o writeYAMLValue(data, 1), NilErr)

\* the name extractHeaders and extractRow give a struct field
HeaderName(f) == IF f.tag # "" /\ f.tag # "-" THEN TagName(f.tag) ELSE f.name

extractHeaders(v) ==
    CASE v.kind = "map" -> [i \in 1..Len(v.entries) |-> v.entries[i].key]
      [] v.kind = "struct" ->
            LET exported == SelectSeq(v.fields, LAMBDA f : IsExported(f.name))
            IN  [i \in 1..Len(exported) |-> HeaderName(exported[i])]
      [] OTHER -> <<>>

\* the first entry of a map row with the given key, 0 if there is none
KeyIndex(v, header) ==
    IF \E i \in 1..Len(v.entries) : v.entries[i].key = header
    THEN CHOOSE i \in 1..Len(v.entries) :
            /\ v.entries[i].key = header
            /\ \A j \in 1..(i - 1) : v.entries[j].key # header
    ELSE 0

\* the first field of a struct row with the given name, 0 if there is none
FieldIndex(v, header) ==
    IF \E j \in 1..Len(v.fields) : HeaderName(v.fields[j]) = header
    THEN CHOOSE j \in 1..Len(v.fields) :
            /\ HeaderName(v.fields[j]) = header
            /\ \A k \in 1..(j - 1) : HeaderName(v.fields[k]) # header
    ELSE 0

\* variant: a map row gives its own values, whatever the headers are
extractRow_OwnValues(v, headers) ==
    [panic |-> FALSE,
     row |-> IF v.kind = "map"
             THEN [i \in 1..Len(v.entries) |-> Sprint(v.entries[i].value)]
             ELSE [i \in 1..Len(headers) |-> ""]]

\* extractRow; reflect's Value.Interface panics on an unexported field
extractRow(v, headers) ==
    CASE v.kind = "map" ->
            [panic |-> FALSE,
             row |-> [i \in 1..Len(headers) |->
                        IF KeyIndex(v, headers[i]) = 0 THEN ""
                        ELSE Sprint(v.entries[KeyIndex(v, headers[i])].value)]]
      [] v.kind = "struct" ->
            [panic |-> \E i \in 1..Len(headers) :
                          /\ FieldIndex(v, headers[i]) # 0
                          /\ ~IsExported(v.fields[FieldIndex(v, headers[i])].name),
             row |-> [i \in 1..Len(headers) |->
                        IF FieldIndex(v, headers[i]) = 0 THEN ""
                        ELSE Sprint(v.fields[FieldIndex(v, headers[i])].value)]]
      [] OTHER -> [panic |-> FALSE, row |-> [i \in 1..Len(headers) |-> ""]]

\* the row-set writeCSV and writeTable work on: a map is replaced by its first
\* slice-valued entry when it has one
RowSet(data) ==
    IF data.kind = "map" /\ \E i \in 1..Len(data.entries) : IsSlice(MapIndex(data, i))
    THEN MapIndex(data, CHOOSE i \in 1..Len(data.entries) :
                            /\ IsSlice(MapIndex(data, i))
                            /\ \A j \in 1..(i - 1) : ~IsSlice(MapIndex(data, j)))
    ELSE data

\* CSV text that must be quoted: it holds a comma, a quote or a line break, or
\* starts with a space (csv.Writer.fieldNeedsQuotes on the modelled texts)
QuotedTexts == {"a,b", "say \"hi\"", " a"}

fieldNeedsQuotes(field) == field \in QuotedTexts

\* one record written by csv.Writer.Write: its fields, each quoted or not,
\* joined by commas and ended by a line break
CSVRecord(row) ==
    [csv |-> [i \in 1..Len(row) |-> [text |-> row[i], quoted |-> fieldNeedsQuotes(row[i])]]]

\* the rows of a row-set, up to the first element on which extractRow panics
Rows(val, headers) ==
    LET rs == [i \in 1..Len(val.elems) |-> extractRow(Index(val, i), headers)]
        bad == {i \in 1..Len(rs) : rs[i].panic}
        n == IF bad = {} THEN Len(rs)
             ELSE (CHOOSE i \in bad : \A j \in bad : i <= j) - 1
    IN  [panic |-> bad # {},
         rows |-> [i \in 1..n |-> rs[i].row]]

\* variant: a payload without a row-set is written as nothing, without error
writeCSV_NoShapeError(data) ==
    LET val == RowSet(data)
    IN  IF ~IsSlice(val) \/ Len(val.elems) = 0
        THEN Result(<<>>, NilErr)
        ELSE LET headers == extractHeaders(Index(val, 1))
                 r == Rows(val, headers)
                 recs == <<CSVRecord(headers)>>
                         \o [i \in 1..Len(r.rows) |-> CSVRecord(r.rows[i])]
             IN  IF r.panic THEN Panicked(recs) ELSE Result(recs, NilErr)

writeCSV(data) ==
    LET val == RowSet(data)
    IN  IF ~IsSlice(val)
        THEN Result(<<>>, Errorf("CSV format requires array/slice data"))
        ELSE IF Len(val.elems) = 0
             THEN Result(<<>>, NilErr)
             ELSE LET headers == extractHeaders(Index(val, 1))
                      r == Rows(val, headers)
                      recs == <<CSVRecord(headers)>>
                              \o [i \in 1..Len(r.rows) |-> CSVRecord(r.rows[i])]
                  IN  IF r.panic THEN Panicked(recs) ELSE Result(recs, NilErr)

\* one line written to the tabwriter: its cells, joined by tabs
TableLine(cells) == [cells |-> cells]

writeTableObject(data) ==
    CASE data.kind = "map" ->
            Result([i \in 1..Len(data.entries) |->
                       TableLine(<<data.entries[i].key \o ":",
                                   Sprint(data.entries[i].value)>>)], NilErr)
      [] data.kind = "struct" ->
            LET exported == SelectSeq(data.fields, LAMBDA f : IsExported(f.name))
            IN  Result([i \in 1..Len(exported) |->
                           TableLine(<<exported[i].name \o ":",
                                       Sprint(exported[i].value)>>)], NilErr)
      [] OTHER -> Result(<<TableLine(<<"Value:", Sprint(data)>>)>>, NilErr)

\* variant: an empty row-set writes nothing, as in writeCSV
writeTable_EmptySilent(data) ==
    LET val == RowSet(data)
    IN  IF ~IsSlice(val)
        THEN writeTableObject(data)
        ELSE IF Len(val.elems) = 0
             THEN Result(<<>>, NilErr)
             ELSE LET headers == extractHeaders(Index(val, 1))
                      r == Rows(val, headers)
                      lines == <<TableLine(headers),
                                 TableLine(<<Repeat("-", Len(headers) * 10)>>)>>
                               \o [i \in 1..Len(r.rows) |-> TableLine(r.rows[i])]
                  IN  IF r.panic THEN Panicked(lines) ELSE Result(lines, NilErr)

writeTable(data) ==
    LET val == RowSet(data)
    IN  IF ~IsSlice(val)
        THEN writeTableObject(data)
        ELSE IF Len(val.elems) = 0
             THEN Result(<<TableLine(<<"(no results)">>)>>, NilErr)
             ELSE LET headers == extractHeaders(Index(val, 1))
                      r == Rows(val, headers)
                      lines == <<TableLine(headers),
                                 TableLine(<<Repeat("-", Len(headers) * 10)>>)>>
                               \o [i \in 1..Len(r.rows) |-> TableLine(r.rows[i])]
                  IN  IF r.panic THEN Panicked(lines) ELSE Result(lines, NilErr)

WriteSuccess(format, data, meta) ==
    CASE format = "json" -> writeJSON(data, meta)
      [] format = "yaml" -> writeYAML(data, meta)
      [] format = "csv" -> writeCSV(data)
      [] format = "table" -> writeTable(data)
      [] OTHER -> Result(<<>>, Errorf("unsupported output format: " \o format))

\* csv.Reader.ReadAll on what csv.Writer wrote: a line that is empty (no
\* field, or one unquoted empty field) is skipped; every other line gives back
\* the texts of its fields
IsBlankLine(rec) ==
    \/ Len(rec.csv) = 0
    \/ Len(rec.csv) = 1 /\ rec.csv[1].text = "" /\ ~rec.csv[1].quoted

ReadAll(records) ==
    LET kept == SelectSeq(records, LAMBDA rec : ~IsBlankLine(rec))
    IN  [i \in 1..Len(kept) |-> [j \in 1..Len(kept[i].csv) |-> kept[i].csv[j].text]]

(***************************************************************************)
(* The command tree and --list-commands                                     *)
(***************************************************************************)
\* a pflag.Flag: its name and its Annotations (a map from keys to values)
Flag(name) == [name |-> name, annotations |-> <<>>]

\* pflag.FlagSet.SetAnnotation
SetAnnotation(flag, key, values) ==
    [flag EXCEPT !.annotations = (key :> values) @@ @]

\* the annotation key cobra keeps required flags under
BashCompOneRequiredFlag == "cobra_annotation_bash_completion_one_required_flag"

\* cobra's Command.MarkFlagRequired on one flag
MarkFlagRequired(flag) == SetAnnotation(flag, BashCompOneRequiredFlag, <<"true">>)

\* a cobra.Command with its flags, those named in required marked required
Command(name, flagNames, required, subcommands) ==
    [name |-> name, hidden |-> FALSE,
     flags |-> [i \in 1..Len(flagNames) |->
                  IF flagNames[i] \in required
                  THEN MarkFlagRequired(Flag(flagNames[i])) ELSE Flag(flagNames[i])],
     commands |-> subcommands]

newDomainRatingCmd == Command("domain-rating", <<"date", "mode", "target">>, {"target"}, <<>>)

newBacklinksStatsCmd ==
    Command("backlinks-stats", <<"date", "mode", "target">>, {"target"}, <<>>)

NewSiteExplorerCmd ==
    Command("site-explorer", <<>>, {}, <<newDomainRatingCmd, newBacklinksStatsCmd>>)

NewConfigCmd == Command("config", <<>>, {}, <<Command("show", <<>>, {}, <<>>)>>)

\* rootCmd after main registered the subcommands
Commands == Command("ahrefs", <<"list-commands">>, {}, <<NewConfigCmd, NewSiteExplorerCmd>>)

\* the FlagInfo buildCommandInfo makes of a flag
FlagInfo(flag) ==
    [name |-> flag.name,
     required |-> /\ "required" \in DOMAIN flag.annotations
                  /\ Len(flag.annotations["required"]) > 0]

RECURSIVE buildCommandInfo(_)
\* the CommandInfo of a command: its flags in VisitAll order, and its
\* subcommands that are not hidden
buildCommandInfo(cmd) ==
    LET shown == SelectSeq(cmd.commands, LAMBDA sub : ~sub.hidden)
    IN  [name |-> cmd.name,
         flags |-> [i \in 1..Len(cmd.flags) |-> FlagInfo(cmd.flags[i])],
         subcommands |-> [i \in 1..Len(shown) |-> buildCommandInfo(shown[i])]]

(***************************************************************************)
(* State                                                                    *)
(***************************************************************************)
VARIABLES
    caller,     \* "cmd": Do is called by runDomainRating; "lib": by a library user
    flags,      \* cmd.GlobalFlags
    env,        \* configKey: config.GetAPIKey(); createFails: os.Create fails
    cfg,        \* client.Config given to NewClient
    req,        \* client.Request given to Do
    c,          \* the Client
    ctx,        \* the caller's context: cancellable, and err = ctx.Err()
    pc,         \* position of the run
    attempt,    \* Do's loop variable
    log,        \* the outcome (status or NoResponse) of every doRequest call so far
    timerLeft,  \* seconds until the channel of time.After(backoff) is ready
    sel,        \* the case Do's select has taken: "none", "timer" or "ctx"
    elapsed,    \* seconds Do has been blocked in the current select
    waits,      \* the seconds spent in each select that took the timer case
    lastResp,   \* resp of the last doRequest call
    lastErr,    \* Do's lastErr
    resp,       \* the Response Do returned
    err,        \* the error Do returned
    cancelAt,   \* where Do was when ctx was cancelled (pc, attempt, timerLeft)
    w,          \* the command's Writer: "unset", "nil", "stdout" or "file"
    out,        \* the envelopes written to the Writer's sink
    stdout,     \* lines printed with fmt.Printf
    ret,        \* what the command, or the write method, returned
    args,       \* the command's arguments: target, mode, date
    render,     \* the format, data and meta of the WriteSuccess call
    files,      \* output files: how many os.Create opened, how many were closed
    header,     \* the X-API-Units-Consumed header of the last answer ("" is none)
    tree        \* the commands registered under the root command

vars == <<caller, flags, env, cfg, req, c, ctx, pc, attempt, log, timerLeft, sel,
          elapsed, waits, lastResp, lastErr, resp, err, cancelAt, w, out, stdout, ret,
          args, render, files, header, tree>>

Attempts == Len(log)

NoCancel == [pc |-> "never"]

CfgRetries == (0 - NegRetries) .. MaxCfgRetries

EndpointOK == "/site-explorer/domain-rating"
\* url.Parse rejects an invalid percent escape
EndpointBad == "/%zz"

UrlParses(u) == u # (BaseURL \o EndpointBad)

\* url.QueryEscape on the modelled argument values
QueryEscape(str) ==
    CASE str = "ahrefs.com/blog?a=1" -> "ahrefs.com%2Fblog%3Fa%3D1"
      [] OTHER -> str

\* variant: the values are put in the query string as they are
Encode_Raw(target, mode, date) ==
    (IF date # "" THEN "date=" \o date \o "&" ELSE "")
        \o "mode=" \o mode \o "&target=" \o target

\* url.Values.Encode of the params the command sets: keys in sorted order,
\* date only when it is given
Encode(target, mode, date) ==
    (IF date # "" THEN "date=" \o QueryEscape(date) \o "&" ELSE "")
        \o "mode=" \o QueryEscape(mode) \o "&target=" \o QueryEscape(target)

CmdArgs == [target |-> "ahrefs.com", mode |-> "domain", date |-> "2024-01-01"]

\* the arguments the modelled command is run with
ArgSets == [target : {"ahrefs.com", "ahrefs.com/blog?a=1"}, mode : {"domain"},
            date : {"", "2024-01-01"}]

NoRender == [format |-> "none"]

\* the values of --format: the four formats and one the Writer does not know
Formats == {"json", "yaml", "csv", "table", "xml"}

\* the values of --format the modelled command is run with
CmdFormats == {"json", "csv", "table"}

NoFlags == [APIKey |-> "", OutputFormat |-> "json", OutputFile |-> "", DryRun |-> FALSE]
NoEnv == [configKey |-> "", createFails |-> FALSE]

InitDo ==
    /\ attempt = 0
    /\ log = <<>>
    /\ timerLeft = 0
    /\ sel = "none"
    /\ elapsed = 0
    /\ waits = <<>>
    /\ lastResp = NilResp
    /\ lastErr = NilErr
    /\ resp = NilResp
    /\ err = NilErr
    /\ cancelAt = NoCancel
    /\ w = "unset"
    /\ out = <<>>
    /\ stdout = <<>>
    /\ ret = NilErr
    /\ files = [opened |-> 0, closed |-> 0]
    /\ header = ""
    /\ tree = Commands

\* a library user: any Config, any Request, a context that may be cancelled
InitLib ==
    /\ caller = "lib"
    /\ flags = NoFlags
    /\ env = NoEnv
    /\ cfg \in [APIKey : {"", "test-key"}, BaseURL : {""}, MaxRetries : CfgRetries]
    /\ req \in [Method : {"GET", "POST"}, Endpoint : {EndpointOK, EndpointBad}]
    /\ c = NewClient(cfg)
    /\ ctx \in [cancellable : BOOLEAN, err : {NilErr}]
    /\ args = CmdArgs
    /\ render = NoRender
    /\ pc = "do"

\* a leaf command: flags and environment are the inputs, the client is built
\* by the command; the runs that send a request are taken with the default
\* arguments, a key from at most one place, and an output file with
\* --format json only
InitCmd ==
    /\ caller = "cmd"
    /\ flags \in [APIKey : {"", "flag-key"}, OutputFormat : CmdFormats,
                  OutputFile : {"", "out.json"}, DryRun : BOOLEAN]
    /\ env \in [configKey : {"", "stored-key"}, createFails : BOOLEAN]
    /\ (flags.OutputFile = "" => ~env.createFails)
    /\ args \in ArgSets
    /\ (~flags.DryRun =>
            /\ args = CmdArgs
            /\ flags.APIKey = "" \/ env.configKey = ""
            /\ flags.OutputFormat # "json" => flags.OutputFile = "")
    /\ render = NoRender
    /\ cfg = [APIKey |-> "", BaseURL |-> "", MaxRetries |-> 0]
    /\ req = [Method |-> "GET", Endpoint |-> EndpointOK]
    /\ c = NewClient(cfg)
    /\ ctx = [cancellable |-> FALSE, err |-> NilErr]
    /\ pc = "cmd"

\* ahrefs --list-commands
InitList ==
    /\ caller = "list"
    /\ flags = NoFlags
    /\ env = NoEnv
    /\ cfg = [APIKey |-> "", BaseURL |-> "", MaxRetries |-> 0]
    /\ req = [Method |-> "GET", Endpoint |-> EndpointOK]
    /\ c = NewClient(cfg)
    /\ ctx = [cancellable |-> FALSE, err |-> NilErr]
    /\ args = CmdArgs
    /\ render = NoRender
    /\ pc = "list"

Init == InitDo /\ (InitLib \/ InitCmd \/ InitList)

(***************************************************************************)
(* Client.Do                                                                *)
(***************************************************************************)
Return(r, e) ==
    /\ pc' = "done"
    /\ resp' = r
    /\ err' = e

\* variant: the URL is parsed before the token is checked
DoPrecheck_UrlFirst(cl, r) ==
    IF ~UrlParses(cl.baseURL \o r.Endpoint)
    THEN Errorf("invalid endpoint: parse error")
    ELSE IF cl.apiKey = ""
         THEN Errorf("API key is required")
         ELSE NilErr

\* the checks Do makes before its loop: the error it returns, or NilErr
DoPrecheck(cl, r) ==
    IF cl.apiKey = ""
    THEN Errorf("API key is required")
    ELSE IF ~UrlParses(cl.baseURL \o r.Endpoint)
         THEN Errorf("invalid endpoint: parse error")
         ELSE NilErr

\* Do, from its entry to the loop
DoEntry ==
    /\ pc = "do"
    /\ IF DoPrecheck(c, req) # NilErr
       THEN Return(NilResp, DoPrecheck(c, req))
       ELSE pc' = "loop" /\ UNCHANGED <<resp, err>>
    /\ attempt' = 0
    /\ UNCHANGED <<header, tree, args, render, files, caller, flags, env, cfg, req, c, ctx, log, timerLeft, sel, elapsed, waits,
                   lastResp, lastErr, cancelAt, w, out, stdout, ret>>

\* the case a select on the two channels takes when it is entered
SelectPoll(ctxErr) == IF ctxErr # NilErr THEN "ctx" ELSE "none"

\* variant: a blocking sleep, which the context does not interrupt
SelectWake_Sleep(cur) == cur

\* the case a blocked select takes when ctx.Done() becomes ready
SelectWake(cur) == IF cur = "none" THEN "ctx" ELSE cur

\* variant: the loop stops one attempt early
LoopContinues_OneLess(att, maxRetries) == att < maxRetries

\* variant: the loop allows one attempt more
LoopContinues_OneMore(att, maxRetries) == att <= maxRetries + 1

\* the condition of Do's for loop
LoopContinues(att, maxRetries) == att <= maxRetries

\* variant: a doubling backoff (1s, 2s, 4s, ...)
Backoff_Doubling(att) == (2 ^ (att - 1)) * Second

\* the duration given to time.After before attempt att
Backoff(att) == att * Second

\* variant: every attempt, the first included, is preceded by a select
NeedsBackoff_Always(att) == att >= 0

\* the attempts that are preceded by a backoff
NeedsBackoff(att) == att > 0

\* the loop condition, and for attempt > 0 the start of the backoff select
LoopHead ==
    /\ pc = "loop"
    /\ IF LoopContinues(attempt, c.maxRetries)
       THEN IF NeedsBackoff(attempt)
            THEN /\ pc' = "backoff"
                 /\ timerLeft' = Backoff(attempt)
                 /\ elapsed' = 0
                 /\ sel' = SelectPoll(ctx.err)
                 /\ UNCHANGED <<resp, err>>
            ELSE /\ pc' = "request"
                 /\ UNCHANGED <<timerLeft, sel, elapsed, resp, err>>
       ELSE /\ Return(NilResp, RetriesError(c.maxRetries, lastErr))
            /\ UNCHANGED <<timerLeft, sel, elapsed>>
    /\ UNCHANGED <<header, tree, args, render, files, caller, flags, env, cfg, req, c, ctx, attempt, log, waits,
                   lastResp, lastErr, cancelAt, w, out, stdout, ret>>

\* one second passes while Do is blocked in the select
Tick ==
    /\ pc = "backoff"
    /\ sel = "none"
    /\ timerLeft > 0
    /\ timerLeft' = timerLeft - 1
    /\ elapsed' = elapsed + 1
    /\ sel' = IF timerLeft' = 0 THEN "timer" ELSE "none"
    /\ UNCHANGED <<header, tree, args, render, files, caller, flags, env, cfg, req, c, ctx, pc, attempt, log, waits,
                   lastResp, lastErr, resp, err, cancelAt, w, out, stdout, ret>>

\* the caller cancels the context, or its deadline passes
Cancel ==
    /\ ctx.cancellable
    /\ ctx.err = NilErr
    /\ pc \in {"do", "loop", "backoff", "request"}
    /\ \E e \in {ErrCanceled, ErrDeadlineExceeded} : ctx' = [ctx EXCEPT !.err = e]
    /\ sel' = IF pc = "backoff" THEN SelectWake(sel) ELSE sel
    /\ cancelAt' = [pc |-> pc, attempt |-> attempt, timerLeft |-> timerLeft, sel |-> sel]
    /\ UNCHANGED <<header, tree, args, render, files, caller, flags, env, cfg, req, c, pc, attempt, log, timerLeft, elapsed, waits,
                   lastResp, lastErr, resp, err, w, out, stdout, ret>>

\* Do leaves the select by the case taken
SelectDone ==
    /\ pc = "backoff"
    /\ sel # "none"
    /\ IF sel = "ctx"
       THEN /\ Return(NilResp, ctx.err)
            /\ UNCHANGED waits
       ELSE /\ pc' = "request"
            /\ waits' = Append(waits, elapsed)
            /\ UNCHANGED <<resp, err>>
    /\ sel' = "none"
    /\ UNCHANGED <<header, tree, args, render, files, caller, flags, env, cfg, req, c, ctx, attempt, log, timerLeft, elapsed,
                   lastResp, lastErr, cancelAt, w, out, stdout, ret>>

\* the values of the X-API-Units-Consumed header ("" is no header), sent by
\* the modelled server with its 200 answers that carry a rating
UnitsHeaders == {"", "5", "abc", "5abc"}

\* the milliseconds a modelled request takes
ResponseTimes == {12}

\* what the network can answer to one request
Outcomes ==
    IF ctx.err # NilErr
    THEN {[status |-> NoResponse, body |-> "", netErr |-> ctx.err,
            units |-> "", ms |-> 0]}
    ELSE {[status |-> NoResponse, body |-> "", netErr |-> ErrConnRefused,
            units |-> "", ms |-> 0]}
         \cup {o \in [status : StatusCodes, body : Bodies, netErr : {NilErr},
                       units : UnitsHeaders, ms : ResponseTimes] :
                    o.units # "" => (o.status = 200 /\ o.body = BodyRating)}

\* doRequest and the rest of the loop body
Attempt ==
    /\ pc = "request"
    /\ \E o \in Outcomes :
        LET r == doRequest(o.status, o.body, o.netErr, o.units, o.ms)
        IN  /\ log' = Append(log, o.status)
            /\ header' = o.units
            /\ lastResp' = r.resp
            /\ IF r.err = NilErr
               THEN /\ Return(r.resp, NilErr)
                    /\ UNCHANGED <<attempt, lastErr>>
               ELSE /\ lastErr' = r.err
                    /\ IF IsClientError(r.resp)
                       THEN /\ Return(NilResp, RetriesError(c.maxRetries, r.err))
                            /\ UNCHANGED attempt
                       ELSE /\ attempt' = attempt + 1
                            /\ pc' = "loop"
                            /\ UNCHANGED <<resp, err>>
    /\ UNCHANGED <<tree, args, render, files, caller, flags, env, cfg, req, c, ctx, timerLeft, sel, elapsed, waits,
                   cancelAt, w, out, stdout, ret>>

(***************************************************************************)
(* siteexplorer.runDomainRating                                             *)
(***************************************************************************)
\* from the entry of the command to its call of c.Get; the dry-run line is
\* printed without its leading check mark, which is not an ASCII character
CmdEntry ==
    /\ pc = "cmd"
    /\ LET apiKey == IF flags.APIKey = "" THEN env.configKey ELSE flags.APIKey
       IN  IF apiKey = ""
           THEN /\ pc' = "returned"
                /\ ret' = Errorf("API key required. Set via --api-key flag, AHREFS_API_KEY env var, or 'ahrefs config set-key'")
                /\ UNCHANGED <<cfg, c, stdout>>
           ELSE /\ cfg' = [APIKey |-> apiKey, BaseURL |-> "", MaxRetries |-> 0]
                /\ c' = NewClient(cfg')
                /\ IF flags.DryRun
                   THEN /\ stdout' = Append(stdout,
                               "Valid request. Would call: GET " \o BaseURL \o req.Endpoint
                               \o "?" \o Encode(args.target, args.mode, args.date))
                        /\ pc' = "returned"
                        /\ ret' = NilErr
                   ELSE /\ pc' = "do"
                        /\ UNCHANGED <<stdout, ret>>
    /\ UNCHANGED <<header, tree, args, render, files, caller, flags, env, req, ctx, attempt, log, timerLeft, sel, elapsed, waits,
                   lastResp, lastErr, resp, err, cancelAt, w, out>>

\* os.Create in NewWriter
NewWriter(outputFile, createFails) ==
    IF outputFile = "" THEN "stdout" ELSE IF createFails THEN "nil" ELSE "file"

\* the branch taken when c.Get returned an error
CmdRequestFailed ==
    /\ caller = "cmd"
    /\ pc = "done"
    /\ err # NilErr
    /\ w' = NewWriter(flags.OutputFile, env.createFails)
    /\ IF w' = "nil"
       THEN /\ pc' = "panic"
            /\ UNCHANGED <<out, ret>>
       ELSE /\ out' = out \o WriteError(flags.OutputFormat, err).writes
            /\ ret' = err
            /\ pc' = "returned"
    /\ files' = [files EXCEPT !.opened = @ + (IF w' = "file" THEN 1 ELSE 0)]
    /\ UNCHANGED <<header, tree, args, render, caller, flags, env, cfg, req, c, ctx, attempt, log,
                   timerLeft, sel, elapsed, waits, lastResp, lastErr, resp, err,
                   cancelAt, stdout>>

\* a DomainRatingResponse
DomainRatingResponse(rating) ==
    Struct(<<Field("DomainRating", "domain_rating",
                   Struct(<<Field("DomainRating", "domain_rating",
                                  Scalar("float64", rating))>>))>>)

\* variant: the body is decoded into a map[string]interface{}
UnmarshalResult_Generic(body) ==
    CASE body = BodyRating ->
            [ok |-> TRUE,
             result |-> MapOfInterface(<<Entry("domain_rating",
                            MapOfInterface(<<Entry("domain_rating",
                                                   Scalar("float64", "91"))>>))>>)]
      [] body = BodyEmpty -> [ok |-> FALSE, err |-> Errorf("unexpected end of JSON input")]
      [] body = BodyText ->
            [ok |-> FALSE,
             err |-> Errorf("invalid character 'e' in literal true (expecting 'r')")]
      [] OTHER -> [ok |-> TRUE, result |-> MapOfInterface(<<>>)]

\* json.Unmarshal(resp.Body, &result) into a DomainRatingResponse, on the
\* modelled bodies: unknown keys are ignored, text that is not JSON is an error
UnmarshalResult(body) ==
    CASE body = BodyRating -> [ok |-> TRUE, result |-> DomainRatingResponse("91")]
      [] body = BodyEmpty -> [ok |-> FALSE, err |-> Errorf("unexpected end of JSON input")]
      [] body = BodyText ->
            [ok |-> FALSE,
             err |-> Errorf("invalid character 'e' in literal true (expecting 'r')")]
      [] OTHER -> [ok |-> TRUE, result |-> DomainRatingResponse("0")]

\* the rest of the command when c.Get returned a response: parse the body,
\* open the Writer, write the result, and close the Writer on the way out
CmdSuccess ==
    /\ caller = "cmd"
    /\ pc = "done"
    /\ err = NilErr
    /\ LET parsed == UnmarshalResult(resp.Body)
           nw == NewWriter(flags.OutputFile, env.createFails)
       IN  IF ~parsed.ok
           THEN /\ ret' = Wrapf("failed to parse response: ", parsed.err)
                /\ pc' = "returned"
                /\ UNCHANGED <<w, out, render, files>>
           ELSE IF nw = "nil"
                THEN /\ w' = nw
                     /\ ret' = Wrapf("failed to create output file: ",
                                     Errorf("open out.json: permission denied"))
                     /\ pc' = "returned"
                     /\ UNCHANGED <<out, render, files>>
                ELSE LET r == WriteSuccess(flags.OutputFormat, parsed.result, resp.Meta)
                     IN  /\ w' = nw
                         /\ render' = [format |-> flags.OutputFormat,
                                       data |-> parsed.result, meta |-> resp.Meta]
                         /\ out' = out \o r.writes
                         /\ ret' = r.err
                         /\ pc' = IF r.panic THEN "panic" ELSE "returned"
                         /\ files' = IF nw = "file"
                                     THEN [opened |-> files.opened + 1,
                                           closed |-> files.closed + 1]
                                     ELSE files
    /\ UNCHANGED <<header, tree, args, caller, flags, env, cfg, req, c, ctx, attempt, log, timerLeft,
                   sel, elapsed, waits, lastResp, lastErr, resp, err, cancelAt, stdout>>

\* rootCmd's PersistentPreRunE with --list-commands: the command tree is
\* encoded to os.Stdout
printCommandList ==
    /\ caller = "list"
    /\ pc = "list"
    /\ stdout' = Append(stdout, buildCommandInfo(tree))
    /\ ret' = NilErr
    /\ pc' = "returned"
    /\ UNCHANGED <<header, tree, args, render, files, caller, flags, env, cfg, req, c, ctx,
                   attempt, log, timerLeft, sel, elapsed, waits, lastResp, lastErr, resp,
                   err, cancelAt, w, out>>

Next ==
    \/ DoEntry
    \/ LoopHead
    \/ Tick
    \/ Cancel
    \/ SelectDone
    \/ Attempt
    \/ CmdEntry
    \/ CmdRequestFailed
    \/ CmdSuccess
    \/ printCommandList

Spec == Init /\ [][Next]_vars

(***************************************************************************)
(* The Writer on its own: WriteSuccess applied to a bounded set of payloads *)
(***************************************************************************)
StrA == Scalar("string", "a")

\* models.RefDomain, cut to its first two fields
RefDomain(domain, rating) ==
    Struct(<<Field("Domain", "domain", Scalar("string", domain)),
             Field("DomainRating", "domain_rating,omitempty", Scalar("int", rating))>>)

\* a struct with an untagged field, a field tagged "-" and an unexported field
Tagless(name) ==
    Struct(<<Field("Name", "", Scalar("string", name)),
             Field("Secret", "-", Scalar("string", "s")),
             Field("hidden", "", Scalar("int", "1"))>>)

\* a struct with one field
Single(name) == Struct(<<Field("Name", "name", Scalar("string", name))>>)

\* a struct whose first field has a tag with options only
OmitOnly(note) ==
    Struct(<<Field("Note", ",omitempty", Scalar("string", note)),
             Field("Domain", "domain", StrA)>>)

\* a struct with an unexported field called as the tag of an exported one
Shadow == Struct(<<Field("name", "", Scalar("string", "x")), Field("Name", "name", StrA)>>)

\* the values of each modelled struct type
StructTypes ==
    {{RefDomain(d, "7") : d \in {"", "a,b"}},
     {Tagless(n) : n \in {"", "a"}},
     {Single(n) : n \in {"", "a"}},
     {OmitOnly("n")},
     {Shadow}}

\* values of map[string]string
MapElems ==
    {Map(<<Entry("domain", StrA), Entry("extra", Scalar("string", "x"))>>),
     Map(<<Entry("extra", Scalar("string", "x")), Entry("domain", StrA)>>),
     Map(<<Entry("domain", Scalar("string", "b"))>>),
     Map(<<Entry("extra", Scalar("string", "y"))>>)}

\* the element types of the modelled typed slices, each as the set of its values
ElemTypes == StructTypes \cup {MapElems, {Scalar("int", "7")}}

\* what the modelled []interface{} hold
MixedElems == {Single("a"), Map(<<Entry("domain", Scalar("string", "b"))>>),
               Scalar("int", "7")}

SeqsUpTo(S, n) == UNION {[1..k -> S] : k \in 0..n}

\* the modelled row-sets: at most MaxRows elements
RowSets ==
    UNION {{Slice(q) : q \in SeqsUpTo(T, MaxRows)} : T \in ElemTypes}
    \cup {SliceOfInterface(q) : q \in SeqsUpTo(MixedElems, MaxRows)}

EmptySlice == Slice(<<>>)

\* the payloads WriteSuccess is applied to
Payloads ==
    RowSets
    \cup {Map(<<Entry("rows", rs)>>) : rs \in {EmptySlice, Slice(<<RefDomain("a,b", "7")>>)}}
    \cup {MapOfInterface(<<Entry("rows", rs)>>) :
             rs \in {EmptySlice, Slice(<<RefDomain("a,b", "7")>>)}}
    \cup {Map(<<Entry("rows", EmptySlice), Entry("more", Slice(<<Single("a")>>))>>),
          Map(<<Entry("more", Slice(<<Single("a")>>)), Entry("rows", EmptySlice)>>),
          MapOfInterface(<<Entry("domain", StrA), Entry("rows", EmptySlice)>>),
          Map(<<Entry("domain", StrA)>>),
          MapOfInterface(<<>>),
          DomainRatingResponse("91"),
          RefDomain("a,b", "7"),
          StrA,
          NilValue}

Metas ==
    {NilMeta} \cup {Meta(u, r, ms) : u \in {0 - 1, 0, 5}, r \in {0, 3}, ms \in {0, 12}}

InitRender ==
    /\ InitDo
    /\ caller = "writer"
    /\ flags = NoFlags
    /\ env = NoEnv
    /\ cfg = [APIKey |-> "", BaseURL |-> "", MaxRetries |-> 0]
    /\ req = [Method |-> "GET", Endpoint |-> EndpointOK]
    /\ c = NewClient(cfg)
    /\ ctx = [cancellable |-> FALSE, err |-> NilErr]
    /\ args = CmdArgs
    /\ render \in [format : Formats, data : Payloads, meta : Metas]
    /\ pc = "write"

\* w, _ := NewWriter(format, ""); w.WriteSuccess(data, meta)
WriterCall ==
    /\ caller = "writer"
    /\ pc = "write"
    /\ LET r == WriteSuccess(render.format, render.data, render.meta)
       IN  /\ w' = NewWriter("", FALSE)
           /\ out' = out \o r.writes
           /\ ret' = r.err
           /\ pc' = IF r.panic THEN "panic" ELSE "returned"
    /\ UNCHANGED <<header, tree, args, render, files, caller, flags, env, cfg, req, c, ctx, attempt,
                   log, timerLeft, sel, elapsed, waits, lastResp, lastErr, resp, err,
                   cancelAt, stdout>>

\* the errors WriteError is applied to
WrittenErrors ==
    {Errorf("API key required"),
     parseError(StatusUnauthorized, BodyMsg),
     RetriesError(DefaultMaxRetries, parseError(StatusForbidden, BodyText))}

\* w, _ := NewWriter(format, ""); w.WriteError(e)
WriteErrorCall ==
    /\ caller = "writer"
    /\ pc = "write"
    /\ \E e \in WrittenErrors :
        LET r == WriteError(render.format, e)
        IN  /\ err' = e
            /\ w' = NewWriter("", FALSE)
            /\ out' = out \o r.writes
            /\ ret' = r.err
            /\ pc' = "wrote"
    /\ UNCHANGED <<header, tree, args, render, files, caller, flags, env, cfg, req, c, ctx,
                   attempt, log, timerLeft, sel, elapsed, waits, lastResp, lastErr, resp,
                   cancelAt, stdout>>

NextRender == WriterCall \/ WriteErrorCall

SpecRender == InitRender /\ [][NextRender]_vars

(***************************************************************************)
(* Properties                                                               *)
(***************************************************************************)
\* Do has returned (it returns a Response or an error, never neither)
Returned ==
    \/ pc = "done"
    \/ pc \in {"returned", "panic"} /\ (err # NilErr \/ ~resp.isNil)

\* Do was called and has passed its checks of the token and the URL
InLoop == pc \in {"loop", "backoff", "request"}

Max(a, b) == IF a >= b THEN a ELSE b

RECURSIVE Sum(_)
Sum(q) == IF q = <<>> THEN 0 ELSE Head(q) + Sum(Tail(q))

RecognizedStatuses == {400, 401, 403, 404, 429}

\* the code column of the classification table
TableCode(status) ==
    CASE status = 401 -> "AUTH_ERROR"
      [] status = 403 -> "AUTH_ERROR"
      [] status = 429 -> "RATE_LIMIT_ERROR"
      [] status = 400 -> "VALIDATION_ERROR"
      [] status = 404 -> "NOT_FOUND"
      [] OTHER -> ""

\* C1: when the first attempt is answered with a status in [400,500) other
\* than 429, Do has returned after exactly one attempt, without any backoff
\* wait, with a nil Response and a non-nil error, whatever maxRetries is.
C1_NoRetryOn4xx ==
    (log # <<>> /\ log[1] \in 400..499 /\ log[1] # 429) =>
        /\ Returned
        /\ Attempts = 1
        /\ waits = <<>>
        /\ elapsed = 0
        /\ resp = NilResp
        /\ err # NilErr

C1_Witness ==
    /\ pc = "done"
    /\ log = <<404>>
    /\ c.maxRetries = 3
    /\ err # NilErr

\* C2: with no cancellation, as long as the server has answered only 5xx and
\* fewer than maxRetries+1 attempts were made, Do goes on; and once attempt N
\* is answered with a status below 400 after N-1 answers >= 500, Do has
\* returned that response with a nil error and N attempts were made.
C2_RetryUntilSuccess ==
    LET N == Attempts
        failed(n) == \A i \in 1..n : log[i] >= 500
    IN  (ctx.err = NilErr /\ DoPrecheck(c, req) = NilErr /\ (InLoop \/ Returned)) =>
        /\ (failed(N) /\ N <= c.maxRetries) => ~Returned
        /\ (N >= 1 /\ failed(N - 1) /\ log[N] \in 1..399) =>
              /\ Returned
              /\ N <= c.maxRetries + 1
              /\ ~resp.isNil
              /\ resp.StatusCode = log[N]
              /\ err = NilErr

C2_Witness ==
    /\ pc = "done"
    /\ c.maxRetries = 3
    /\ log = <<500, 503, 599, 200>>
    /\ resp.StatusCode = 200
    /\ err = NilErr

IsRetryableOutcome(s) == s = NoResponse \/ s >= 500 \/ s = 429

\* a call of Do that got to its retry loop, saw only retryable failures and
\* no cancellation, and has returned
ExhaustedCase ==
    /\ pc = "done"
    /\ DoPrecheck(c, req) = NilErr
    /\ ctx.err = NilErr
    /\ \A i \in 1..Attempts : IsRetryableOutcome(log[i])

C4_NoAPIKey ==
    (c.apiKey = "" /\ (InLoop \/ Returned)) =>
        /\ pc = "done"
        /\ Attempts = 0
        /\ resp = NilResp
        /\ ErrorText(err) = "API key is required"

C4_Witness ==
    /\ pc = "done"
    /\ c.apiKey = ""
    /\ req.Method = "POST"
    /\ req.Endpoint = EndpointBad
    /\ Attempts = 0

\* the context was cancelled while Do was blocked in the backoff select before
\* attempt cancelAt.attempt, and the timer had not expired
CancelledInWait ==
    /\ cancelAt.pc = "backoff"
    /\ cancelAt.timerLeft > 0

\* C5: if the context is cancelled during the backoff wait before attempt k,
\* before the timer expires, Do waits no longer and returns the context's
\* error; attempt k and the later attempts are never started.
C5_CancelDuringBackoff ==
    CancelledInWait =>
        /\ pc \in {"backoff", "done"}
        /\ timerLeft = cancelAt.timerLeft
        /\ attempt = cancelAt.attempt
        /\ Attempts = cancelAt.attempt
        /\ (pc = "done" => (resp = NilResp /\ err = ctx.err /\ err # NilErr))

C5_Witness ==
    /\ CancelledInWait
    /\ cancelAt.attempt = 2
    /\ cancelAt.timerLeft = 1
    /\ pc = "done"
    /\ err = ErrDeadlineExceeded
    /\ Attempts = 2

\* C6: the wait before attempt k is exactly k seconds for every k >= 1, no
\* wait precedes attempt 0, and a call that has made maxRetries retries has
\* waited maxRetries*(maxRetries+1)/2 seconds in total.
C6_LinearBackoff ==
    /\ \A k \in 1..Len(waits) : waits[k] = k
    /\ (pc = "request" => Len(waits) = attempt)
    /\ (Attempts >= 1 => Len(waits) \in {Attempts - 1, Attempts})
    /\ (Attempts = 0 => waits = <<>>)
    /\ (pc = "done" /\ Attempts = c.maxRetries + 1) =>
          Sum(waits) = (c.maxRetries * (c.maxRetries + 1)) \div 2

C6_Witness ==
    /\ pc = "done"
    /\ c.maxRetries = 3
    /\ Attempts = 4
    /\ waits = <<1, 2, 3>>
    /\ Sum(waits) = 6

\* C7: for every body, the APIError of a 401 or 403 has code AUTH_ERROR, of a
\* 429 RATE_LIMIT_ERROR, of a 400 VALIDATION_ERROR and of a 404 NOT_FOUND,
\* each with a non-empty suggestion, also when the body carries its own code.
C7_RecognizedStatusCodes ==
    (~lastResp.isNil /\ lastResp.StatusCode \in RecognizedStatuses) =>
        /\ lastErr.kind = "APIError"
        /\ lastErr.StatusCode = lastResp.StatusCode
        /\ lastErr.Code = TableCode(lastResp.StatusCode)
        /\ lastErr.Suggestion # ""

C7_Witness ==
    /\ ~lastResp.isNil
    /\ lastResp.StatusCode = 403
    /\ lastResp.Body = BodyCodeMsg
    /\ lastErr.Code = "AUTH_ERROR"
    /\ lastErr.Message = "quota exceeded"

\* a response with an error status that the classification table does not name
UnrecognizedError ==
    /\ ~lastResp.isNil
    /\ lastResp.StatusCode >= 400
    /\ lastResp.StatusCode \notin RecognizedStatuses

\* C8 as stated: for a status outside {400,401,403,404,429} the APIError has
\* an empty code and an empty suggestion, whatever the body.
C8_Original ==
    UnrecognizedError => (lastErr.Code = "" /\ lastErr.Suggestion = "")

\* C8 (amended): for a status outside {400,401,403,404,429} the APIError has
\* an empty suggestion and an empty docs URL, and its code is the error.code
\* of a JSON body that parses with a non-empty error.message, and empty for
\* every other body.
C8_UnrecognizedStatusCodes ==
    UnrecognizedError =>
        /\ lastErr.kind = "APIError"
        /\ lastErr.Suggestion = ""
        /\ lastErr.DocsURL = ""
        /\ lastErr.Code = (IF lastResp.Body = BodyCodeMsg THEN "E42" ELSE "")

C8_Witness ==
    /\ UnrecognizedError
    /\ lastResp.StatusCode = 500
    /\ lastResp.Body = BodyCodeMsg
    /\ lastErr.Code = "E42"
    /\ lastErr.Suggestion = ""

\* C9: every APIError carries a non-empty message, for every status >= 400
\* and every body.
C9_MessageNonEmpty ==
    lastErr.kind = "APIError" => lastErr.Message # ""

\* the five statuses of the table, as the final answer to a command's request
CmdRecognizedFailure ==
    /\ caller = "cmd"
    /\ pc = "returned"
    /\ out # <<>>
    /\ ~lastResp.isNil
    /\ lastResp.StatusCode \in RecognizedStatuses

\* C10: when a command's request fails with status 401, 403, 429, 400 or 404,
\* the envelope WriteError wrote for the error Get returned has error.code
\* equal to the table's code, error.message equal to the API message and a
\* non-empty error.suggestion.
C10_EnvelopeClassified ==
    CmdRecognizedFailure =>
        LET e == out[Len(out)].error
        IN  /\ "code" \in DOMAIN e
            /\ e.code = TableCode(lastResp.StatusCode)
            /\ e.message = lastErr.Message
            /\ "suggestion" \in DOMAIN e
            /\ e.suggestion # ""

\* the last attempt was answered with an error status and Do has returned
FinalStatusError ==
    /\ Returned
    /\ Attempts >= 1
    /\ ~lastResp.isNil
    /\ lastResp.StatusCode >= 400

\* C11: when the status of the final attempt is >= 400, Do returns the
\* Response (non-nil, with that status code and the raw body) together with
\* the error.
C11_ResponseOnFailure ==
    FinalStatusError =>
        /\ ~resp.isNil
        /\ resp.StatusCode = lastResp.StatusCode
        /\ resp.Body = lastResp.Body
        /\ err # NilErr

\* the command has returned an error to Execute
CmdFailed == caller = "cmd" /\ pc = "returned" /\ ret # NilErr

\* C12: whenever a leaf command returns an error, the last thing written
\* through the Writer is a structured error envelope.
C12_EnvelopeBeforeFailure ==
    CmdFailed =>
        /\ out # <<>>
        /\ "status" \in DOMAIN out[Len(out)]
        /\ out[Len(out)].status = "error"

\* the command is over, by a return or by a panic
CmdOver == caller = "cmd" /\ pc \in {"returned", "panic"}

\* C13: when the command is over, every output file NewWriter opened has
\* been closed, once.
C13_SinkClosedOnce == CmdOver => files.closed = files.opened

\* a --dry-run run of the command has returned
DryRunDone == caller = "cmd" /\ flags.DryRun /\ pc = "returned"

\* --api-key, AHREFS_API_KEY or the config file gives a key
KeyAvailable == flags.APIKey # "" \/ env.configKey # ""

\* base URL, endpoint path and percent-encoded query of the run's arguments
ResolvedURL ==
    "https://api.ahrefs.com/v3/site-explorer/domain-rating?"
    \o (IF args.date = "2024-01-01" THEN "date=2024-01-01&" ELSE "")
    \o "mode=domain&target="
    \o (IF args.target = "ahrefs.com" THEN "ahrefs.com" ELSE "ahrefs.com%2Fblog%3Fa%3D1")

\* no request was sent, the resolved URL is the one line printed, nothing was
\* written through a Writer and the command returned nil
DryRunOutcome ==
    /\ Attempts = 0
    /\ stdout = <<"Valid request. Would call: GET " \o ResolvedURL>>
    /\ out = <<>>
    /\ ret = NilErr

\* C14 as stated: every run with --dry-run issues no request, prints the
\* resolved URL and returns success.
C14_Original == DryRunDone => DryRunOutcome

\* C14: every run with --dry-run for which an API key is available issues no
\* request, prints the resolved URL and returns success.
C14_DryRun == (DryRunDone /\ KeyAvailable) => DryRunOutcome

C14_Witness ==
    /\ DryRunDone
    /\ KeyAvailable
    /\ args.target = "ahrefs.com/blog?a=1"
    /\ stdout # <<>>

\* WriteSuccess has returned from the Writer of the given format
Rendered(format) == caller = "writer" /\ pc = "returned" /\ render.format = format

\* C15 as stated: the JSON success envelope always has meta.response_time_ms.
C15_Original ==
    Rendered("json") =>
        /\ Len(out) = 1
        /\ "meta" \in DOMAIN out[1]
        /\ "response_time_ms" \in DOMAIN out[1].meta

\* C15: when WriteSuccess is given a ResponseMeta, the JSON success envelope
\* has meta.response_time_ms, and has meta.units_consumed (respectively
\* meta.rate_limit_remaining) exactly when that value is greater than 0; with
\* a nil ResponseMeta the envelope has no meta object.
C15_JSONMeta ==
    Rendered("json") =>
        /\ Len(out) = 1
        /\ out[1].status = "success"
        /\ IF render.meta.isNil
           THEN "meta" \notin DOMAIN out[1]
           ELSE /\ "meta" \in DOMAIN out[1]
                /\ LET m == out[1].meta
                   IN  /\ "response_time_ms" \in DOMAIN m
                       /\ m.response_time_ms = render.meta.ResponseTimeMS
                       /\ ("units_consumed" \in DOMAIN m) <=> (render.meta.UnitsConsumed > 0)
                       /\ ("units_consumed" \in DOMAIN m) =>
                              m.units_consumed = render.meta.UnitsConsumed
                       /\ ("rate_limit_remaining" \in DOMAIN m)
                              <=> (render.meta.RateLimitRemaining > 0)
                       /\ ("rate_limit_remaining" \in DOMAIN m) =>
                              m.rate_limit_remaining = render.meta.RateLimitRemaining

C15_Witness ==
    /\ Rendered("json")
    /\ ~render.meta.isNil
    /\ render.meta.UnitsConsumed = 5
    /\ render.meta.RateLimitRemaining = 0
    /\ Len(out) = 1
    /\ DOMAIN out[1].meta = {"response_time_ms", "units_consumed"}

\* the WriteSuccess call of the given format is over, by a return or a panic
RenderOver(format) ==
    caller = "writer" /\ pc \in {"returned", "panic"} /\ render.format = format

\* the payload is a sequence of K >= 1 records of one struct type
UniformRecords ==
    /\ IsSlice(render.data)
    /\ ~render.data.ifaceElem
    /\ Len(render.data.elems) >= 1
    /\ \A i \in 1..Len(render.data.elems) : render.data.elems[i].kind = "struct"

\* the name a record's field is serialized under: the name in its tag, the
\* identifier when there is no tag or the tag is "-"
SerializationName(f) == IF f.tag = "" \/ f.tag = "-" THEN f.name ELSE TagName(f.tag)

\* the exported fields of a record, in declaration order
ExportedFields(rec) == SelectSeq(rec.fields, LAMBDA f : IsExported(f.name))

\* C16: rendering K >= 1 records of one type to CSV and reading the CSV back
\* gives one header row, the serialization names in declaration order, and
\* exactly K data rows, the default string forms of each record's values.
C16_CSVRoundTrip ==
    (RenderOver("csv") /\ UniformRecords) =>
        /\ pc = "returned"
        /\ ret = NilErr
        /\ LET recs == render.data.elems
               back == ReadAll(out)
           IN  /\ Len(back) = Len(recs) + 1
               /\ back[1] = [j \in 1..Len(ExportedFields(recs[1])) |->
                                SerializationName(ExportedFields(recs[1])[j])]
               /\ \A i \in 1..Len(recs) :
                      back[i + 1] = [j \in 1..Len(ExportedFields(recs[i])) |->
                                        Sprint(ExportedFields(recs[i])[j].value)]

\* the round trip of C16 on the records it does hold for
C16_RoundTripReached ==
    /\ RenderOver("csv")
    /\ UniformRecords
    /\ Len(render.data.elems) = 2
    /\ render.data.elems[1] = RefDomain("a,b", "7")
    /\ ReadAll(out) = <<<<"domain", "domain_rating">>, <<"a,b", "7">>, <<"a,b", "7">>>>

\* WriteSuccess has returned from the CSV or the table Writer, and the row-set
\* it worked on had at least one element
TabularRendered ==
    /\ caller = "writer"
    /\ pc = "returned"
    /\ render.format \in {"csv", "table"}
    /\ IsSlice(RowSet(render.data))
    /\ Len(RowSet(render.data).elems) >= 1

\* the cells of the header line that was written
RenderedHeader ==
    IF render.format = "csv"
    THEN [j \in 1..Len(out[1].csv) |-> out[1].csv[j].text]
    ELSE out[1].cells

\* the cells of the line written for the i-th element (the table has a
\* separator line after its header)
RenderedRow(i) ==
    IF render.format = "csv"
    THEN [j \in 1..Len(out[1 + i].csv) |-> out[1 + i].csv[j].text]
    ELSE out[2 + i].cells

\* the names an element of the row-set has: the keys of a map, the
\* serialization names of the exported fields of a struct
ElementNames(e) ==
    CASE e.kind = "map" -> [j \in 1..Len(e.entries) |-> e.entries[j].key]
      [] e.kind = "struct" ->
            [j \in 1..Len(ExportedFields(e)) |-> SerializationName(ExportedFields(e)[j])]
      [] OTHER -> <<>>

\* the string forms of what an element has under a name
NamedValues(e, name) ==
    CASE e.kind = "map" ->
            {Sprint(e.entries[j].value) : j \in {k \in 1..Len(e.entries) : e.entries[k].key = name}}
      [] e.kind = "struct" ->
            {Sprint(e.fields[j].value) :
                j \in {k \in 1..Len(e.fields) : SerializationName(e.fields[k]) = name}}
      [] OTHER -> {}

C17_WitnessDropped ==
    /\ TabularRendered
    /\ render.format = "table"
    /\ render.data = Slice(<<Map(<<Entry("domain", Scalar("string", "b"))>>),
                             Map(<<Entry("extra", Scalar("string", "x")), Entry("domain", StrA)>>)>>)
    /\ RenderedRow(2) = <<"a">>

\* the entries of a mapping that hold a sequence
SequenceEntries(data) ==
    {i \in 1..Len(data.entries) : data.entries[i].value.kind = "slice"}

\* the payload is neither a sequence nor a mapping holding a sequence
NoSequence(data) ==
    /\ data.kind # "slice"
    /\ data.kind = "map" => SequenceEntries(data) = {}

\* C18: in CSV mode a payload that is neither a sequence nor a mapping holding
\* a sequence makes WriteSuccess return the error "CSV format requires
\* array/slice data", and nothing is written to the sink.
C18_CSVRequiresSequence ==
    (RenderOver("csv") /\ NoSequence(render.data)) =>
        /\ pc = "returned"
        /\ ret = Errorf("CSV format requires array/slice data")
        /\ out = <<>>

C18_Witness ==
    /\ RenderOver("csv")
    /\ render.data = DomainRatingResponse("91")
    /\ ErrorText(ret) = "CSV format requires array/slice data"
    /\ out = <<>>

\* the payload is an empty sequence, or a mapping whose sequence-valued
\* entries are empty sequences
EmptySequence(data) ==
    \/ data.kind = "slice" /\ data.elems = <<>>
    \/ /\ data.kind = "map"
       /\ SequenceEntries(data) # {}
       /\ \A i \in SequenceEntries(data) : data.entries[i].value.elems = <<>>

\* C19: CSV rendering of an empty sequence, given directly or as the
\* sequence-valued entry of a mapping, writes nothing and returns no error.
C19_EmptyCSV ==
    (RenderOver("csv") /\ EmptySequence(render.data)) =>
        /\ pc = "returned"
        /\ ret = NilErr
        /\ out = <<>>

\* C20: table rendering of an empty sequence writes one line, "(no results)",
\* and no header line and no separator line.
C20_EmptyTable ==
    (RenderOver("table") /\ render.data.kind = "slice" /\ render.data.elems = <<>>) =>
        /\ pc = "returned"
        /\ ret = NilErr
        /\ Len(out) = 1
        /\ out[1].cells = <<"(no results)">>

C20_Witness ==
    /\ RenderOver("table")
    /\ render.data = EmptySlice
    /\ out = <<TableLine(<<"(no results)">>)>>

\* the name and the text of every scalar held directly by a mapping (under
\* its key) or by a record (under the identifier of an exported field)
ScalarChildren(v) ==
    CASE v.kind = "map" ->
            {<<v.entries[i].key, v.entries[i].value.text>> :
                i \in {k \in 1..Len(v.entries) : "text" \in DOMAIN v.entries[k].value}}
      [] v.kind = "struct" ->
            {<<v.fields[i].name, v.fields[i].value.text>> :
                i \in {k \in 1..Len(v.fields) :
                          /\ IsExported(v.fields[k].name)
                          /\ "text" \in DOMAIN v.fields[k].value}}
      [] OTHER -> {}

\* WriteSuccess has returned from the YAML Writer, and the payload is a
\* mapping or a record that holds a scalar
YAMLScalarRendered == Rendered("yaml") /\ ScalarChildren(render.data) # {}

\* C21 as stated: a scalar is printed on the line of the key or field name
\* that introduces it.
C21_Original ==
    YAMLScalarRendered =>
        \A child \in ScalarChildren(render.data) :
            \E k \in 1..Len(out) : out[k].text = child[1] \o ": " \o child[2]

\* C21: in YAML-like mode a scalar is printed on a line of its own, the line
\* after the "name:" line of the key or field that introduces it and one
\* level deeper; no line holds both the name and the scalar.
C21_ScalarOnNextLine ==
    YAMLScalarRendered =>
        \A child \in ScalarChildren(render.data) :
            /\ \E k \in 1..(Len(out) - 1) :
                  /\ out[k] = [indent |-> 1, text |-> child[1] \o ":"]
                  /\ out[k + 1] = [indent |-> 2, text |-> child[2]]
            /\ \A k \in 1..Len(out) : out[k].text # child[1] \o ": " \o child[2]

C21_Witness ==
    /\ YAMLScalarRendered
    /\ render.data = RefDomain("a,b", "7")
    /\ out = <<[indent |-> 0, text |-> "status: success"], [indent |-> 0, text |-> "data:"],
               [indent |-> 1, text |-> "Domain:"], [indent |-> 2, text |-> "a,b"],
               [indent |-> 1, text |-> "DomainRating:"], [indent |-> 2, text |-> "7"]>>

\* the flag is one cobra requires: MarkFlagRequired was called on it
IsMarkedRequired(flag) == BashCompOneRequiredFlag \in DOMAIN flag.annotations

RECURSIVE DeclaredFlags(_)
\* every flag of the command tree: its command, its name, whether it is marked
DeclaredFlags(cmd) ==
    {<<cmd.name, cmd.flags[i].name, IsMarkedRequired(cmd.flags[i])>> : i \in 1..Len(cmd.flags)}
    \cup UNION {DeclaredFlags(cmd.commands[i]) : i \in 1..Len(cmd.commands)}

RECURSIVE ReportedFlags(_)
\* every flag of the emitted JSON: its command, its name, its "required"
ReportedFlags(info) ==
    {<<info.name, info.flags[i].name, info.flags[i].required>> : i \in 1..Len(info.flags)}
    \cup UNION {ReportedFlags(info.subcommands[i]) : i \in 1..Len(info.subcommands)}

\* --list-commands has printed the command tree
Listed == caller = "list" /\ pc = "returned"

\* C23: in the JSON of --list-commands a flag has required = true exactly
\* when its command marked it required.
C23_RequiredReported ==
    Listed =>
        /\ Len(stdout) = 1
        /\ ReportedFlags(stdout[1]) = DeclaredFlags(tree)

\* the last attempt was answered
LastAnswered == Attempts >= 1 /\ ~lastResp.isNil

\* what doRequest gives for the last answer when its header is units
LastAnswerWith(units) ==
    doRequest(lastResp.StatusCode, lastResp.Body, NilErr, units,
              lastResp.Meta.ResponseTimeMS)

\* C22: a units-consumed header that is not a valid integer gives the
\* outcome of an absent header, with ResponseMeta.UnitsConsumed at 0, and a
\* valid integer is stored in UnitsConsumed.
C22_UnitsHeader ==
    LastAnswered =>
        /\ header # "5" =>
              /\ lastResp.Meta.UnitsConsumed = 0
              /\ LastAnswerWith(header) = LastAnswerWith("")
        /\ header = "5" => lastResp.Meta.UnitsConsumed = 5

\* the last attempt was answered with an error status, which parseError
\* turned into lastErr
ParsedError ==
    /\ LastAnswered
    /\ lastResp.StatusCode >= 400
    /\ lastErr.kind = "APIError"

\* the bodies that are JSON of the shape {error:{code,message}} with a
\* non-empty message, and their message
JSONMessage(body) ==
    CASE body = "{\"error\":{\"message\":\"Invalid API key\"}}" -> "Invalid API key"
      [] body = "{\"error\":{\"code\":\"E42\",\"message\":\"quota exceeded\"}}" -> "quota exceeded"
      [] OTHER -> ""

\* C24: the message of the error parseError builds is the body's JSON
\* error.message when there is a non-empty one; otherwise the raw body text
\* when the body is not empty; otherwise the HTTP status text of the code.
C24_MessagePriority ==
    ParsedError =>
        lastErr.Message =
            IF JSONMessage(lastResp.Body) # "" THEN JSONMessage(lastResp.Body)
            ELSE IF lastResp.Body # "" THEN lastResp.Body
            ELSE StatusText(lastResp.StatusCode)

\* a JSON body with an empty message: the raw body is the message
C24_Witness ==
    /\ ParsedError
    /\ lastResp.Body = BodyCodeNoMsg
    /\ lastErr.Message = "{\"error\":{\"code\":\"E42\",\"message\":\"\"}}"

\* Do was called with a non-empty token and a parseable URL
DoRuns == caller \in {"lib", "cmd"} /\ DoPrecheck(c, req) = NilErr

\* attempt 0 is made without a wait before it, and Do does not return before
\* it has made an attempt
FirstAttemptImmediate ==
    /\ Returned => Attempts >= 1
    /\ pc = "backoff" => (attempt >= 1 /\ Attempts >= 1)
    /\ (pc = "request" /\ Attempts = 0) => (waits = <<>> /\ elapsed = 0)

DoReturned == caller \in {"lib", "cmd"} /\ Returned

C26_WitnessNoAttempt ==
    /\ DoReturned
    /\ Attempts = 0
    /\ cfg.MaxRetries < 0
    /\ resp.isNil
    /\ err.kind = "wrapError"

\* Do has given up after at least one attempt: the attempts are exhausted, or
\* the last attempt was answered with a 4xx status other than 429
GaveUp ==
    /\ DoReturned
    /\ Attempts >= 1
    /\ resp.isNil
    /\ \/ attempt > c.maxRetries
       \/ (log[Attempts] >= 400 /\ log[Attempts] < 500 /\ log[Attempts] # 429)

ErrorWritten == caller = "writer" /\ pc = "wrote"

\* C28: whatever the format of the Writer, WriteError writes the one envelope
\* {status: "error", error: {...}}, with the message of the error or, for an
\* APIError, its fields, and returns no error.
C28_ErrorAlwaysJSON ==
    ErrorWritten =>
        /\ Len(out) = 1
        /\ DOMAIN out[1] = {"status", "error"}
        /\ out[1].status = "error"
        /\ out[1].error.message =
              (IF err.kind = "APIError" THEN err.Message ELSE ErrorText(err))
        /\ ("code" \in DOMAIN out[1].error) <=> (err.kind = "APIError")
        /\ ret = NilErr

\* the envelope written by a Writer of a format WriteSuccess does not know
C28_Witness ==
    /\ ErrorWritten
    /\ render.format = "xml"
    /\ out = <<[status |-> "error", error |-> [message |-> "API key required"]]>>
    /\ ret = NilErr

\* the command got a successful response, parsed it and called WriteSuccess
CmdRendered == caller = "cmd" /\ render # NoRender

\* C29: the command passes a record to WriteSuccess; with --format csv the
\* run ends in the error "CSV format requires array/slice data" with nothing
\* written, and with --format table one "field name: value" line is written
\* per field of the record, and no header row.
C29_RecordPayload ==
    CmdRendered =>
        /\ render.data.kind = "struct"
        /\ render.format = "csv" =>
              /\ ret = Errorf("CSV format requires array/slice data")
              /\ out = <<>>
        /\ render.format = "table" =>
              /\ ret = NilErr
              /\ Len(out) = Len(render.data.fields)
              /\ \A i \in 1..Len(out) :
                     out[i].cells = <<render.data.fields[i].name \o ":",
                                      Sprint(render.data.fields[i].value)>>

C29_Witness ==
    /\ CmdRendered
    /\ render.format = "table"
    /\ out = <<[cells |-> <<"DomainRating:", "{91}">>]>>

C29_WitnessCSV ==
    /\ CmdRendered
    /\ render.format = "csv"
    /\ pc = "returned"
    /\ ErrorText(ret) = "CSV format requires array/slice data"

\* the command's request failed and NewWriter could not create the output file
FailedWithoutWriter == caller = "cmd" /\ err # NilErr /\ w = "nil"

\* C30: when the request failed and NewWriter could not create the output
\* file, the command does not call WriteError on the nil Writer and returns
\* the request error.
C30_NoNilWriter ==
    FailedWithoutWriter =>
        /\ pc = "returned"
        /\ ret = err

====
